---- MODULE Spec2Model ----
(***************************************************************************)
(* Model of src/src/sheet_sync.py (SheetSync): the row normalizer, the     *)
(* remote fetch, the upsert-by-EMAIL reconciliation and the batched POST   *)
(* dispatch with retries; of HunterClient (src/src/enrichment.py), of the   *)
(* bulk scrape and its proxy rotation (src/src/scraper.py) and of          *)
(* run_full_pipeline (src/src/main.py).                                    *)
(*                                                                         *)
(* Strings are sequences of one-character strings, so that str.strip()    *)
(* and str.lower() are computed and not assumed.                           *)
(***************************************************************************)
EXTENDS Integers, Sequences, FiniteSets, TLC

(***************************************************************************)
(* Bounds of the model                                                     *)
(***************************************************************************)
\* longest local CSV (rows) drawn for the reconciliation inputs
MaxLocal == 2
\* longest remote sheet (rows) drawn for the reconciliation inputs
MaxRemote == 2
\* longest local CSV / remote sheet drawn for whole sync runs
MaxSyncLocal == 1
MaxSyncRemote == 1
\* largest bulk CSV (rows) drawn for whole sync runs
MaxBulk == 120
\* number of consecutive sync runs explored
MaxRuns == 2
\* most API keys of a HunterClient, largest credit of a key, number of
\* find_email calls explored, and the count at which h_requests stays
MaxKeys == 2
MaxCredits == 2
MaxCalls == 2
MaxRequests == 3
\* most proxies, workers, queries and pages per query of a bulk scrape
MaxProxies == 2
MaxWorkers == 2
MaxQueries == 4
MaxPages == 2
\* most profiles a stage of the pipeline returns
MaxProfiles == 4

(***************************************************************************)
(* Program constants (sheet_sync.py:31-53)                                 *)
(***************************************************************************)
BATCH_SIZE == 50
RETRIES == 3
RETRY_DELAY == 2

SHEET_COLUMNS ==
    <<"NAME", "EMAIL", "ROLE", "COMPANY", "SOURCE", "DATE", "STATUS",
      "TEMPLATE USED", "NOTES">>

BACKEND_OWNED == {"NAME", "EMAIL", "ROLE", "COMPANY", "SOURCE", "DATE", "NOTES"}

WORKFLOW_OWNED == {"STATUS", "TEMPLATE USED"}

\* the set of the sheet's header names
SheetColumnSet == {SHEET_COLUMNS[n] : n \in 1..Len(SHEET_COLUMNS)}

(***************************************************************************)
(* Strings                                                                 *)
(***************************************************************************)
EmptyStr == << >>
Pending == <<"P", "e", "n", "d", "i", "n", "g">>
HunterIo == <<"H", "u", "n", "t", "e", "r", ".", "i", "o">>
\* pd.Timestamp.utcnow().isoformat(): some non-empty text
NowIso == <<"2", "0", "2", "6", "T", "0", "0">>

Whitespace == {" "}

UpperChars == <<"A", "B", "C", "F", "H", "L", "N", "P", "R", "S", "T">>
LowerChars == <<"a", "b", "c", "f", "h", "l", "n", "p", "r", "s", "t">>

\* str.lower() on one character
LowerChar(c) ==
    IF \E n \in 1..Len(UpperChars) : UpperChars[n] = c
    THEN LowerChars[CHOOSE n \in 1..Len(UpperChars) : UpperChars[n] = c]
    ELSE c

\* str.lower()
Lower(s) == [n \in 1..Len(s) |-> LowerChar(s[n])]

RECURSIVE LStrip(_)
LStrip(s) ==
    IF s # << >> /\ Head(s) \in Whitespace THEN LStrip(Tail(s)) ELSE s

RECURSIVE RStrip(_)
RStrip(s) ==
    IF s # << >> /\ s[Len(s)] \in Whitespace
    THEN RStrip(SubSeq(s, 1, Len(s) - 1))
    ELSE s

\* str.strip()
Strip(s) == LStrip(RStrip(s))

\* dict.get(key, default) / Series.get(key, default)
Get(row, key, default) == IF key \in DOMAIN row THEN row[key] ELSE default

(***************************************************************************)
(* DataFrames: a set of column names and a sequence of rows, every row a   *)
(* function from the columns to strings.                                   *)
(***************************************************************************)
\* pd.DataFrame()
EmptyFrame == [columns |-> {}, rows |-> << >>]

\* mutant: a frame with columns and no rows does not count as empty
IsEmpty_NoColumns(df) == df.columns = {}

\* DataFrame.empty: any axis of length 0
IsEmpty(df) == df.columns = {} \/ Len(df.rows) = 0

\* pd.DataFrame(list of row dicts).fillna(""): the columns are the union of
\* the keys, a value missing from a row is ""
FrameOf(recs) ==
    LET cols == UNION {DOMAIN recs[n] : n \in 1..Len(recs)}
    IN  [columns |-> cols,
         rows |-> [n \in 1..Len(recs) |->
                      [c \in cols |-> Get(recs[n], c, EmptyStr)]]]

\* df[col] = values: adds (or overwrites) one column in place
WithColumn(df, col, values) ==
    [columns |-> df.columns \cup {col},
     rows |-> [n \in 1..Len(df.rows) |->
                  [c \in df.columns \cup {col} |->
                      IF c = col THEN values[n] ELSE df.rows[n][c]]]]

(***************************************************************************)
(* Row normalizer: SheetSync._load_local_rows (sheet_sync.py:68-113)       *)
(***************************************************************************)
build_name(row) ==
    LET first == Strip(Get(row, "first_name", EmptyStr))
        last == Strip(Get(row, "last_name", EmptyStr))
    IN  IF first # EmptyStr \/ last # EmptyStr
        THEN Strip(first \o <<" ">> \o last)
        ELSE Strip(Get(row, "name", EmptyStr))

build_notes(row) == Strip(Get(row, "linkedin_url", EmptyStr))

\* `x.strip() or "Hunter.io"`
SourceOf(row) ==
    LET s == Strip(Get(row, "source", HunterIo))
    IN  IF s = EmptyStr THEN HunterIo ELSE s

\* the default of row.get("date", ...) is used only when the CSV has no
\* `date` column
DateOf(row, now) == Strip(Get(row, "date", now))

\* rec of one CSV row (lines 94-107)
NormalizeRecord(row, now) ==
    [col \in SheetColumnSet |->
        CASE col = "NAME" -> build_name(row)
          [] col = "EMAIL" -> Strip(Get(row, "email", EmptyStr))
          [] col = "ROLE" -> Strip(Get(row, "job_title", EmptyStr))
          [] col = "COMPANY" -> Strip(Get(row, "company", EmptyStr))
          [] col = "SOURCE" -> SourceOf(row)
          [] col = "DATE" -> DateOf(row, now)
          [] col = "STATUS" -> Pending
          [] col = "TEMPLATE USED" -> EmptyStr
          [] col = "NOTES" -> build_notes(row)]

\* a missing INPUT_CSV gives pd.DataFrame(); otherwise one record per CSV
\* row, in a frame with exactly the SHEET_COLUMNS
_load_local_rows(file, now) ==
    IF ~file.exists
    THEN EmptyFrame
    ELSE [columns |-> SheetColumnSet,
          rows |-> [n \in 1..Len(file.rows) |->
                       NormalizeRecord(file.rows[n], now)]]

(***************************************************************************)
(* Reconciliation: SheetSync._compute_changes (sheet_sync.py:144-202)      *)
(***************************************************************************)
\* mutant: the frames are not fillna("")-ed, an empty EMAIL reads "nan"
EmailNorm_Nan(email) ==
    IF Strip(email) = EmptyStr THEN <<"n", "a", "n">> ELSE Lower(Strip(email))

\* .astype(str).str.strip().str.lower() of one EMAIL value
EmailNorm(email) == Lower(Strip(email))

\* the email_norm column of a frame (lines 153-158)
EmailNormColumn(df) ==
    [n \in 1..Len(df.rows) |-> EmailNorm(df.rows[n]["EMAIL"])]

\* mutant: the first remote row of a key stays in the map
RECURSIVE existing_by_email_FirstWins(_)
existing_by_email_FirstWins(rows) ==
    IF rows = << >>
    THEN << >>
    ELSE LET before == existing_by_email_FirstWins(SubSeq(rows, 1, Len(rows) - 1))
             r == rows[Len(rows)]
             email == Get(r, "email_norm", EmptyStr)
         IN  IF email # EmptyStr /\ email \notin DOMAIN before
             THEN [k \in DOMAIN before \cup {email} |->
                      IF k = email THEN r ELSE before[k]]
             ELSE before

\* existing_by_email (lines 160-164): iterate the sheet rows in order and
\* overwrite the entry of each non-empty email_norm
RECURSIVE existing_by_email(_)
existing_by_email(rows) ==
    IF rows = << >>
    THEN << >>
    ELSE LET before == existing_by_email(SubSeq(rows, 1, Len(rows) - 1))
             r == rows[Len(rows)]
             email == Get(r, "email_norm", EmptyStr)
         IN  IF email # EmptyStr
             THEN [k \in DOMAIN before \cup {email} |->
                      IF k = email THEN r ELSE before[k]]
             ELSE before

\* mutant: an insert carries the backend-owned columns only
InsertRow_BackendOnly(local) ==
    [k \in SheetColumnSet |->
        IF k \in BACKEND_OWNED THEN Get(local, k, EmptyStr) ELSE EmptyStr]

\* mutant: an insert is the row of the frame as it is, email_norm included
InsertRow_WholeRow(local) == local

\* {k: local.get(k, "") for k in SHEET_COLUMNS} (lines 174, 180)
InsertRow(local) == [k \in SheetColumnSet |-> Get(local, k, EmptyStr)]

\* which branch of lines 187-195 decides a column
MergeBranch(col) ==
    IF col \in WORKFLOW_OWNED THEN "workflow"
    ELSE IF col \in BACKEND_OWNED THEN "backend"
    ELSE "fallback"

\* mutant: every column of an update is taken from the local row
MergeValue_LocalWins(col, local, existing) ==
    Get(local, col, Get(existing, col, EmptyStr))

\* mutant: the two ownership branches are swapped
MergeValue_RemoteWins(col, local, existing) ==
    CASE MergeBranch(col) = "workflow" -> Get(local, col, EmptyStr)
      [] MergeBranch(col) = "backend" -> Get(existing, col, EmptyStr)
      [] OTHER -> Get(local, col, Get(existing, col, EmptyStr))

\* mutant: every column of an update is taken from the sheet row
MergeValue_SheetWins(col, local, existing) ==
    Get(existing, col, Get(local, col, EmptyStr))

\* merged[col] (lines 186-195)
MergeValue(col, local, existing) ==
    CASE MergeBranch(col) = "workflow" -> Get(existing, col, EmptyStr)
      [] MergeBranch(col) = "backend" -> Get(local, col, EmptyStr)
      [] OTHER -> Get(local, col, Get(existing, col, EmptyStr))

MergedRow(local, existing) ==
    [col \in SheetColumnSet |-> MergeValue(col, local, existing)]

\* "insert" or "update" for one local row (lines 171-182)
ChangeKind(local, existing_map) ==
    LET email_norm == Get(local, "email_norm", EmptyStr)
    IN  IF email_norm = EmptyStr THEN "insert"
        ELSE IF email_norm \notin DOMAIN existing_map THEN "insert"
        ELSE "update"

\* the row appended to changes for one local row (lines 169-197)
ChangeFor(local, existing_map) ==
    IF ChangeKind(local, existing_map) = "insert"
    THEN InsertRow(local)
    ELSE MergedRow(local, existing_map[local["email_norm"]])

\* mutant: a row without email is skipped instead of inserted
ChangesOf_SkipKeyless(local_rows, existing_map) ==
    LET kept == SelectSeq(local_rows,
                          LAMBDA r : Get(r, "email_norm", EmptyStr) # EmptyStr)
    IN  [n \in 1..Len(kept) |-> ChangeFor(kept[n], existing_map)]

\* the loop of lines 169-197: one change per local row, in local order
ChangesOf(local_rows, existing_map) ==
    [n \in 1..Len(local_rows) |-> ChangeFor(local_rows[n], existing_map)]

\* mutant: without the early return of lines 148-151 the column lookup of
\* line 153 meets the frame without columns
_compute_changes_NoEmptyPath(df_local, df_sheet) ==
    IF "EMAIL" \notin df_sheet.columns
    THEN [raised |-> TRUE, changes |-> << >>,
          df_local |-> df_local, df_sheet |-> df_sheet]
    ELSE LET sheet2 == WithColumn(df_sheet, "email_norm", EmailNormColumn(df_sheet))
             local2 == WithColumn(df_local, "email_norm", EmailNormColumn(df_local))
         IN  [raised |-> FALSE,
              changes |-> ChangesOf(local2.rows, existing_by_email(sheet2.rows)),
              df_local |-> local2, df_sheet |-> sheet2]

\* mutant: an empty sheet frame gives an empty change-set
_compute_changes_EmptyIsNothing(df_local, df_sheet) ==
    IF IsEmpty(df_sheet)
    THEN [raised |-> FALSE, changes |-> << >>,
          df_local |-> df_local, df_sheet |-> df_sheet]
    ELSE IF "EMAIL" \notin df_sheet.columns
    THEN [raised |-> TRUE, changes |-> << >>,
          df_local |-> df_local, df_sheet |-> df_sheet]
    ELSE LET sheet2 == WithColumn(df_sheet, "email_norm", EmailNormColumn(df_sheet))
             local2 == WithColumn(df_local, "email_norm", EmailNormColumn(df_local))
         IN  [raised |-> FALSE,
              changes |-> ChangesOf(local2.rows, existing_by_email(sheet2.rows)),
              df_local |-> local2, df_sheet |-> sheet2]

\* the returned change-set and the two frames as the call
\* leaves them (email_norm is added to both in place); raised when the
\* sheet frame has rows but no EMAIL column (df_sheet.get gives the str "")
_compute_changes(df_local, df_sheet) ==
    IF IsEmpty(df_sheet)
    THEN [raised |-> FALSE, changes |-> df_local.rows,
          df_local |-> df_local, df_sheet |-> df_sheet]
    ELSE IF "EMAIL" \notin df_sheet.columns
    THEN [raised |-> TRUE, changes |-> << >>,
          df_local |-> df_local, df_sheet |-> df_sheet]
    ELSE LET sheet2 == WithColumn(df_sheet, "email_norm", EmailNormColumn(df_sheet))
             local2 == WithColumn(df_local, "email_norm", EmailNormColumn(df_local))
             existing_map == existing_by_email(sheet2.rows)
         IN  [raised |-> FALSE,
              changes |-> ChangesOf(local2.rows, existing_map),
              df_local |-> local2, df_sheet |-> sheet2]

(***************************************************************************)
(* Batch dispatch: SheetSync._post_batch (sheet_sync.py:207-243)           *)
(***************************************************************************)
\* what session.post can produce: an exception, or a response with a status
\* and a body (absent / not JSON / a JSON object with or without
\* "status": "error")
Exception == [kind |-> "exception"]

Responses ==
    {[kind |-> "response", status |-> st, body |-> b] :
        st \in {200, 500}, b \in {"absent", "not_json", "json_ok", "json_error"}}

\* mutant: every status 200 counts as synced, whatever the body says
IsSuccess_StatusOnly(resp) ==
    /\ resp.kind = "response"
    /\ resp.status = 200

\* lines 224-237: the attempt returns True
IsSuccess(resp) ==
    /\ resp.kind = "response"
    /\ resp.status = 200
    /\ resp.body # "json_error"

\* mutant: changes[i : i + BATCH_SIZE + 1]
Slice_OneMore(changes, i, size) ==
    SubSeq(changes, i + 1,
           IF i + size + 1 < Len(changes) THEN i + size + 1 ELSE Len(changes))

\* changes[i : i + BATCH_SIZE] (i counted from 0)
Slice(changes, i, size) ==
    SubSeq(changes, i + 1, IF i + size < Len(changes) THEN i + size ELSE Len(changes))

\* mutant: the last, shorter batch is not sent
HasNextBatch_DropsTail(offset, rows) == offset + BATCH_SIZE <= Len(rows)

\* mutant: a dropped batch is counted too
SentAfter_Always(count, batch, ok) == count + Len(batch)

\* mutant: range(1, RETRIES + 2)
HasNextAttempt_OffByOne(attempt) == attempt <= RETRIES

\* `for i in range(0, len(changes), BATCH_SIZE)` has a batch at offset i
HasNextBatch(offset, rows) == offset < Len(rows)

\* `if self._post_batch(batch): sent += len(batch)` (lines 268-269)
SentAfter(count, batch, ok) == IF ok THEN count + Len(batch) ELSE count

\* range(1, RETRIES + 1) has a further attempt after this one
HasNextAttempt(attempt) == attempt < RETRIES

\* which branch of lines 213-240 an attempt takes
OutcomeOf(resp) ==
    IF resp.kind = "exception" THEN "exception"
    ELSE IF resp.status # 200 THEN "non_200"
    ELSE IF resp.body = "json_error" THEN "logical_error"
    ELSE "synced"

\* seconds slept after an attempt: time.sleep(RETRY_DELAY) is in the except
\* branch alone (line 240)
SleepAfter(resp) == IF resp.kind = "exception" THEN RETRY_DELAY ELSE 0

(***************************************************************************)
(* The remote store (the Apps Script web app behind the two webhooks):     *)
(* a delivered batch is upserted row by row, by natural key.               *)
(***************************************************************************)
HasKey(rows, key) ==
    \E n \in 1..Len(rows) : EmailNorm(rows[n]["EMAIL"]) = key

\* the last row of batch with this key
LastWithKey(batch, key) ==
    LET js == {j \in 1..Len(batch) : EmailNorm(batch[j]["EMAIL"]) = key}
    IN  batch[CHOOSE j \in js : \A k \in js : k <= j]

\* rows after upserting the rows of batch one after the other: a row with a
\* key the sheet holds overwrites the rows of that key, any other row is
\* appended (and overwritten by a later row of the batch with its key)
UpsertBatch(rows, batch) ==
    LET key(r) == EmailNorm(r["EMAIL"])
        updated == [n \in 1..Len(rows) |->
                       IF key(rows[n]) # EmptyStr /\ HasKey(batch, key(rows[n]))
                       THEN LastWithKey(batch, key(rows[n]))
                       ELSE rows[n]]
        isNew(j) == \/ key(batch[j]) = EmptyStr
                    \/ /\ ~HasKey(rows, key(batch[j]))
                       /\ \A k \in 1..(j - 1) : key(batch[k]) # key(batch[j])
        news == {j \in 1..Len(batch) : isNew(j)}
        nth(k) == CHOOSE j \in news : Cardinality({m \in news : m < j}) = k - 1
        appended == [k \in 1..Cardinality(news) |->
                        IF key(batch[nth(k)]) = EmptyStr
                        THEN batch[nth(k)]
                        ELSE LastWithKey(batch, key(batch[nth(k)]))]
    IN  updated \o appended

(***************************************************************************)
(* Inputs                                                                  *)
(***************************************************************************)
S1(a) == <<a>>
S2(a, b) == <<a, b>>

RawColumns ==
    {"first_name", "last_name", "name", "job_title", "company", "email",
     "source", "date", "linkedin_url"}

\* the two CSV headers drawn: every enrichment column, or a minimal export
HeaderFull == RawColumns
HeaderMin == {"name", "email", "company"}

RawRow(first, last, name, title, company, email, source, date, url) ==
    [c \in RawColumns |->
        CASE c = "first_name" -> first
          [] c = "last_name" -> last
          [] c = "name" -> name
          [] c = "job_title" -> title
          [] c = "company" -> company
          [] c = "email" -> email
          [] c = "source" -> source
          [] c = "date" -> date
          [] c = "linkedin_url" -> url]

\* raw CSV rows: two spellings of the key "a", an email that is empty
\* after trimming, and a key no remote row has
LocalPool ==
    {RawRow(S1("F"), S1("L"), EmptyStr, S1("r"), S1("c"), S2("a", " "),
            EmptyStr, EmptyStr, S1("u")),
     RawRow(S1(" "), EmptyStr, S2("N", " "), S2(" ", "R"), S1("C"), S1("A"),
            S1("s"), S1("d"), EmptyStr),
     RawRow(EmptyStr, S1("L"), S1("n"), EmptyStr, S1("c"), S1(" "),
            S1(" "), S2("d", " "), S1("u")),
     RawRow(S1("F"), EmptyStr, EmptyStr, S1("r"), EmptyStr, S1("c"),
            S1("s"), EmptyStr, S2(" ", "u"))}

SheetRow(name, email, status, template) ==
    [c \in SheetColumnSet |->
        CASE c = "NAME" -> name
          [] c = "EMAIL" -> email
          [] c = "STATUS" -> status
          [] c = "TEMPLATE USED" -> template
          [] OTHER -> S1("o")]

Replied == <<"R", "e", "p", "l", "i", "e", "d">>
Sent == <<"S", "e", "n", "t">>

\* remote rows: two spellings of the key "a" with different workflow
\* values, a row without email, and a key no local row has
RemotePool ==
    {SheetRow(S1("o"), S2(" ", "A"), Replied, S1("T")),
     SheetRow(S1("p"), S1("a"), Sent, EmptyStr),
     SheetRow(S1("q"), EmptyStr, Replied, S1("T")),
     SheetRow(S1("o"), S1("b"), Pending, S1("T"))}

\* a remote row as a sheet with the header "Email" returns it
OtherHeader(row) ==
    [c \in (DOMAIN row \ {"EMAIL"}) \cup {"Email"} |->
        IF c = "Email" THEN row["EMAIL"] ELSE row[c]]

SeqsUpTo(S, n) == UNION {[1..k -> S] : k \in 0..n}

MissingFile == [exists |-> FALSE, columns |-> {}, rows |-> << >>]

CsvFile(header, rows) ==
    [exists |-> TRUE, columns |-> header,
     rows |-> [n \in 1..Len(rows) |-> [c \in header |-> rows[n][c]]]]

\* a bulk CSV of n rows with keys: rows cycle through three pool rows
BulkPool ==
    <<RawRow(S1("F"), S1("L"), EmptyStr, S1("r"), S1("c"), S2("a", " "),
             EmptyStr, EmptyStr, S1("u")),
      RawRow(S1(" "), EmptyStr, S2("N", " "), S2(" ", "R"), S1("C"), S1("A"),
             S1("s"), S1("d"), EmptyStr),
      RawRow(S1("F"), EmptyStr, EmptyStr, S1("r"), EmptyStr, S1("c"),
             S1("s"), EmptyStr, S2(" ", "u"))>>

BulkFile(n) ==
    CsvFile(HeaderFull, [k \in 1..n |-> BulkPool[(k % 3) + 1]])

BulkSizes == {BATCH_SIZE, MaxBulk}

\* the remote sheets a bulk CSV is synced against: empty, or one row that
\* a third of the bulk rows match
BulkSheets == {<< >>, <<SheetRow(S1("o"), S2(" ", "A"), Replied, S1("T"))>>}

SmallFiles(max) ==
    {CsvFile(h, rows) : h \in {HeaderFull, HeaderMin}, rows \in SeqsUpTo(LocalPool, max)}

\* the inputs of whole runs: CSVs of a row with the key "a" and a row without
\* key, against sheets of a row with the key "a" and a row with another key
SyncLocalPool == {r \in LocalPool : r["email"] \in {S2("a", " "), S1(" ")}}

SyncRemotePool == {r \in RemotePool : r["EMAIL"] \in {S2(" ", "A"), S1("b")}}

SyncFiles ==
    {MissingFile} \cup
    {CsvFile(HeaderFull, rows) : rows \in SeqsUpTo(SyncLocalPool, MaxSyncLocal)}

(***************************************************************************)
(* State                                                                   *)
(***************************************************************************)
VARIABLES
    csv,            \* data/enriched_with_emails.csv (INPUT_CSV)
    webhook_get,    \* TRUE when SheetSync was given a GET URL
    sheet,          \* the rows of the remote sheet
    pc,             \* position of sync(): idle, fetch, compute, loop, post,
                    \* returned, raised
    df_local,       \* sync's df_local
    df_sheet,       \* sync's df_sheet
    fetched,        \* how _fetch_existing ended in this run
    gets,           \* GET requests issued in this run
    changes,        \* sync's changes
    i,              \* loop variable of `for i in range(0, len(changes), BATCH_SIZE)`
    attempt,        \* loop variable of _post_batch
    tries,          \* outcome (TRUE = success) of each POST of the current batch
    last_post,      \* how the latest POST of the current _post_batch call ended
    slept,          \* seconds of time.sleep since the latest POST
    sent,           \* sync's sent
    result,         \* value returned by sync(), "none" before it returns
    batch_log,      \* the batches _post_batch has finished in this run
    runs,           \* number of the current sync run
    had_drop,       \* TRUE when an earlier run dropped a batch
    sheet_start     \* the remote sheet when the current run began

\* HunterClient (enrichment.py)
VARIABLES
    api_keys,       \* self.api_keys: the key dicts, in the order of the config
    h_pc,           \* position of find_email: idle, request, sleeping,
                    \* returned
    key_index,      \* position in api_keys of the key of the current request
    h_result,       \* what the last find_email call returned
    h_requests,     \* GET requests of the current find_email call
    calls           \* find_email calls made so far

\* scrape_bulk_async and its ProxyRotator (scraper.py)
VARIABLES
    proxies,            \* ProxyRotator.proxies; a proxy is named by a number
    current_index,      \* ProxyRotator.current_index
    concurrent_workers, \* config scraping.concurrent_workers
    n_queries,          \* len(queries)
    pages_per_query,    \* the pages argument of every scrape_query
    tasks,              \* the scrape_query coroutines: position and page of each
    batch_start,        \* loop variable i of line 374
    s_pc,               \* position of scrape_bulk_async: idle, loop, gathering,
                        \* returned, raised
    handed              \* what the get_next calls have returned, in order

\* run_full_pipeline (main.py)
VARIABLES
    config_present,     \* TRUE when config/settings.yaml can be opened
    webhook_url,        \* config.get("webhook_url"): absent, empty or set
    p_pc,               \* position of run_full_pipeline: idle, scraping,
                        \* enrichment, sheet_sync, returned, raised
    scraped_count,      \* run_full_pipeline's scraped_count
    enriched_count,     \* run_full_pipeline's enriched_count
    stages,             \* the stage functions called so far and how each ended
    sync_calls,         \* calls of SheetSync.sync made by the pipeline
    p_result            \* what run_full_pipeline returned, "none" before

syncVars ==
    <<csv, webhook_get, sheet, pc, df_local, df_sheet, fetched, gets, changes,
      i, attempt, tries, last_post, slept, sent, result, batch_log, runs,
      had_drop, sheet_start>>

hunterVars == <<api_keys, h_pc, key_index, h_result, h_requests, calls>>

scraperVars ==
    <<proxies, current_index, concurrent_workers, n_queries, pages_per_query,
      tasks, batch_start, s_pc, handed>>

pipelineVars ==
    <<config_present, webhook_url, p_pc, scraped_count, enriched_count,
      stages, sync_calls, p_result>>

vars == <<syncVars, hunterVars, scraperVars, pipelineVars>>

\* the state of the other components, which SheetSync does not touch
elsewhere == <<hunterVars, scraperVars, pipelineVars>>

\* the state of the other components, which HunterClient does not touch
outsideHunter == <<syncVars, scraperVars, pipelineVars>>

\* what no action of a run changes
inputs == <<csv, webhook_get, runs, had_drop, sheet_start, elsewhere>>

\* the locals of a run before sync() is called
FreshRun ==
    /\ pc = "idle"
    /\ df_local = EmptyFrame
    /\ df_sheet = EmptyFrame
    /\ fetched = "none"
    /\ gets = 0
    /\ changes = << >>
    /\ i = 0
    /\ attempt = 0
    /\ tries = << >>
    /\ last_post = "none"
    /\ slept = 0
    /\ sent = 0
    /\ result = "none"
    /\ batch_log = << >>

\* SheetSync has not been built: nothing to sync, sync() not called
SyncIdle ==
    /\ csv = MissingFile
    /\ webhook_get = FALSE
    /\ sheet = << >>
    /\ runs = 1
    /\ had_drop = FALSE
    /\ sheet_start = << >>
    /\ FreshRun

\* no find_email call has been made, no key is configured
HunterIdle ==
    /\ api_keys = << >>
    /\ h_pc = "idle"
    /\ key_index = 0
    /\ h_result = "none"
    /\ h_requests = 0
    /\ calls = 0

\* scrape_bulk_async has not been called
ScraperIdle ==
    /\ proxies = << >>
    /\ current_index = 0
    /\ concurrent_workers = 0
    /\ n_queries = 0
    /\ pages_per_query = 0
    /\ tasks = << >>
    /\ batch_start = 0
    /\ s_pc = "idle"
    /\ handed = << >>

\* run_full_pipeline has not been called
PipelineIdle ==
    /\ config_present = TRUE
    /\ webhook_url = "absent"
    /\ p_pc = "idle"
    /\ scraped_count = 0
    /\ enriched_count = 0
    /\ stages = << >>
    /\ sync_calls = 0
    /\ p_result = "none"

Init ==
    /\ HunterIdle
    /\ ScraperIdle
    /\ PipelineIdle
    /\ \/ /\ csv \in SyncFiles
          /\ sheet \in SeqsUpTo(SyncRemotePool, MaxSyncRemote)
       \/ /\ csv \in {BulkFile(n) : n \in BulkSizes}
          /\ sheet \in BulkSheets
    /\ webhook_get \in BOOLEAN
    /\ runs = 1
    /\ had_drop = FALSE
    /\ sheet_start = sheet
    /\ FreshRun

InitReconcile ==
    /\ HunterIdle
    /\ ScraperIdle
    /\ PipelineIdle
    /\ csv \in SmallFiles(MaxLocal)
    /\ webhook_get \in BOOLEAN
    /\ sheet \in SeqsUpTo(RemotePool, MaxRemote)
    /\ runs = 1
    /\ had_drop = FALSE
    /\ sheet_start = sheet
    /\ FreshRun

(***************************************************************************)
(* SheetSync.sync (sheet_sync.py:248-272)                                  *)
(***************************************************************************)
\* lines 253-256
StartSync ==
    /\ pc = "idle"
    /\ df_local' = _load_local_rows(csv, NowIso)
    /\ IF IsEmpty(df_local')
       THEN pc' = "returned" /\ result' = 0
       ELSE pc' = "fetch" /\ UNCHANGED result
    /\ UNCHANGED <<inputs, sheet, df_sheet, fetched, gets, changes, i, attempt,
                   tries, last_post, slept, sent, batch_log>>

\* _fetch_existing ends with `frame` after `requests` GET requests
\* (sheet_sync.py:118-139)
Fetched(how, requests, frame) ==
    /\ pc = "fetch"
    /\ df_sheet' = frame
    /\ fetched' = how
    /\ gets' = gets + requests
    /\ pc' = "compute"
    /\ UNCHANGED <<inputs, sheet, df_local, changes, i, attempt, tries,
                   last_post, slept, sent, result, batch_log>>

\* lines 119-121
FetchNoUrl == ~webhook_get /\ Fetched("no_url", 0, EmptyFrame)

\* lines 125-127
FetchNon200 == webhook_get /\ Fetched("non_200", 1, EmptyFrame)

\* lines 137-139: session.get raised
FetchException == webhook_get /\ Fetched("exception", 1, EmptyFrame)

\* lines 129 and 137-139: status 200 with a body that is not JSON, r.json()
\* raised
FetchBadJson == webhook_get /\ Fetched("bad_json", 1, EmptyFrame)

\* lines 129-136: the body is the list of rows, bare or under "data"
FetchOk ==
    /\ webhook_get
    /\ \E envelope \in BOOLEAN :
          LET body == IF envelope THEN [data |-> sheet] ELSE sheet
              data == IF envelope THEN body.data ELSE body
          IN  Fetched("ok", 1, FrameOf(data))

\* lines 129-136: the body is a list of rows whose header spells the email
\* column otherwise, so that no row has the key "EMAIL"
FetchOkOtherHeader ==
    /\ webhook_get
    /\ sheet # << >>
    /\ Fetched("ok_other_header", 1,
               FrameOf([n \in 1..Len(sheet) |-> OtherHeader(sheet[n])]))

\* lines 259-263
ComputeChanges ==
    /\ pc = "compute"
    /\ LET r == _compute_changes(df_local, df_sheet)
       IN  /\ df_local' = r.df_local
           /\ df_sheet' = r.df_sheet
           /\ changes' = r.changes
           /\ IF r.raised
              THEN pc' = "raised" /\ UNCHANGED result
              ELSE IF r.changes = << >>
              THEN pc' = "returned" /\ result' = 0
              ELSE pc' = "loop" /\ UNCHANGED result
    /\ sent' = 0
    /\ i' = 0
    /\ UNCHANGED <<inputs, sheet, fetched, gets, attempt, tries, last_post,
                   slept, batch_log>>

\* lines 266-267 and 271-272: the next batch, or the return
LoopNext ==
    /\ pc = "loop"
    /\ IF HasNextBatch(i, changes)
       THEN /\ pc' = "post"
            /\ attempt' = 1
            /\ tries' = << >>
            /\ UNCHANGED result
       ELSE /\ pc' = "returned"
            /\ result' = sent
            /\ UNCHANGED <<attempt, tries>>
    /\ last_post' = "none"
    /\ slept' = 0
    /\ UNCHANGED <<inputs, sheet, df_local, df_sheet, fetched, gets, changes,
                   i, sent, batch_log>>

\* one session.post of _post_batch with its outcome (lines 212-243), and
\* line 268-269 when the call returns
PostAttempt(resp) ==
    /\ pc = "post"
    /\ last_post' = OutcomeOf(resp)
    /\ slept' = SleepAfter(resp)
    /\ LET batch == Slice(changes, i, BATCH_SIZE)
           done(ok) == Append(batch_log,
                              [start |-> i, size |-> Len(batch),
                               tries |-> Append(tries, ok), delivered |-> ok])
       IN  IF IsSuccess(resp)
           THEN /\ sent' = SentAfter(sent, batch, TRUE)
                /\ batch_log' = done(TRUE)
                /\ sheet' = UpsertBatch(sheet, batch)
                /\ i' = i + BATCH_SIZE
                /\ pc' = "loop"
                /\ UNCHANGED <<attempt, tries>>
           ELSE IF HasNextAttempt(attempt)
           THEN /\ attempt' = attempt + 1
                /\ tries' = Append(tries, FALSE)
                /\ UNCHANGED <<sent, batch_log, sheet, i, pc>>
           ELSE /\ sent' = SentAfter(sent, batch, FALSE)
                /\ batch_log' = done(FALSE)
                /\ i' = i + BATCH_SIZE
                /\ pc' = "loop"
                /\ UNCHANGED <<sheet, attempt, tries>>
    /\ UNCHANGED <<inputs, df_local, df_sheet, fetched, gets, changes, result>>

\* status 200 and no logical error (lines 235-237)
PostSynced ==
    \E resp \in Responses :
        resp.status = 200 /\ resp.body # "json_error" /\ PostAttempt(resp)

\* status 200 with {"status": "error"} (lines 231-234)
PostLogicalError ==
    \E resp \in Responses :
        resp.status = 200 /\ resp.body = "json_error" /\ PostAttempt(resp)

\* any other status: no branch of line 224 is taken
PostNon200 ==
    \E resp \in Responses : resp.status # 200 /\ PostAttempt(resp)

\* lines 238-240
PostException == \E resp \in {Exception} : PostAttempt(resp)

\* the pipeline is run again on the same CSV
NextRun ==
    /\ pc = "returned"
    /\ runs < MaxRuns
    /\ runs' = runs + 1
    /\ had_drop' = (had_drop \/ \E m \in 1..Len(batch_log) : ~batch_log[m].delivered)
    /\ pc' = "idle"
    /\ df_local' = EmptyFrame
    /\ df_sheet' = EmptyFrame
    /\ fetched' = "none"
    /\ gets' = 0
    /\ changes' = << >>
    /\ i' = 0
    /\ attempt' = 0
    /\ tries' = << >>
    /\ last_post' = "none"
    /\ slept' = 0
    /\ sent' = 0
    /\ result' = "none"
    /\ batch_log' = << >>
    /\ sheet_start' = sheet
    /\ UNCHANGED <<csv, webhook_get, sheet, elsewhere>>

Next ==
    \/ StartSync
    \/ FetchNoUrl
    \/ FetchNon200
    \/ FetchException
    \/ FetchBadJson
    \/ FetchOk
    \/ FetchOkOtherHeader
    \/ ComputeChanges
    \/ LoopNext
    \/ PostSynced
    \/ PostLogicalError
    \/ PostNon200
    \/ PostException
    \/ NextRun

Spec == Init /\ [][Next]_vars

\* sync() up to the change-set, on the richer reconciliation inputs
NextReconcile ==
    \/ StartSync
    \/ FetchNoUrl
    \/ FetchNon200
    \/ FetchException
    \/ FetchBadJson
    \/ FetchOk
    \/ FetchOkOtherHeader
    \/ ComputeChanges

SpecReconcile == InitReconcile /\ [][NextReconcile]_vars

(***************************************************************************)
(* HunterClient (enrichment.py:50-333): the choice of the API key and      *)
(* find_email.  A position in api_keys is counted from 1 (the code counts  *)
(* from 0); 0 stands for the None of _get_active_key.                      *)
(***************************************************************************)
\* k.get("credits", 0) (line 176)
KeyCredits(k) == IF "credits" \in DOMAIN k THEN k.credits ELSE 0

\* k.get("status") == "active" (line 178)
IsActive(k) == "status" \in DOMAIN k /\ k.status = "active"

\* the positions of active_keys (lines 175-179)
ActiveKeys(keys) == {n \in 1..Len(keys) : IsActive(keys[n])}

\* the sort key (-x[2], x[1]) of line 186 puts position a before position b
SortsBefore(keys, a, b) ==
    \/ KeyCredits(keys[a]) > KeyCredits(keys[b])
    \/ KeyCredits(keys[a]) = KeyCredits(keys[b]) /\ a <= b

\* mutant: the sort key (x[2], x[1]): fewest credits first
_get_active_key_FewestCredits(keys) ==
    IF ActiveKeys(keys) = {} THEN 0
    ELSE CHOOSE a \in ActiveKeys(keys) :
             \A b \in ActiveKeys(keys) :
                 \/ KeyCredits(keys[a]) < KeyCredits(keys[b])
                 \/ KeyCredits(keys[a]) = KeyCredits(keys[b]) /\ a <= b

\* _get_active_key (lines 168-190): active_keys[0] after the sort
_get_active_key(keys) ==
    IF ActiveKeys(keys) = {} THEN 0
    ELSE CHOOSE a \in ActiveKeys(keys) :
             \A b \in ActiveKeys(keys) : SortsBefore(keys, a, b)

\* the key dicts of a config: with and without status and credits
KeyPool ==
    {[status |-> st, credits |-> c] : st \in {"active", "exhausted"}, c \in 0..MaxCredits}
    \cup {[status |-> "active"], [credits |-> MaxCredits]}

\* the arguments of find_email, by the check of lines 212-232 that stops them
FinderInputs == {"no_domain", "bad_domain", "bad_last_name", "blacklisted", "valid"}

\* what requests.get of lines 255-259 and resp.json() can give
FinderResponses ==
    {[kind |-> "response", status |-> st, data |-> "none",
      has_remaining |-> FALSE, remaining |-> 0] : st \in {429, 400, 500}}
    \cup {[kind |-> "response", status |-> st, data |-> d,
           has_remaining |-> h, remaining |-> r] :
            st \in {200, 201},
            d \in {"none", "no_email", "low_score", "found"},
            h \in BOOLEAN,
            r \in 0..MaxCredits}
    \cup {[kind |-> k] : k \in {"timeout", "request_exception", "bad_json"}}

\* the branch of lines 261-333 a response takes
FinderOutcome(resp) ==
    IF resp.kind # "response" THEN "failed"
    ELSE IF resp.status = 429 THEN "rate_limited"
    ELSE IF resp.status \notin {200, 201} THEN "rejected"
    ELSE IF resp.data = "found" THEN "found"
    ELSE "not_found"

\* self.api_keys after lines 311-317
CreditsAfter(keys, index, resp) ==
    IF FinderOutcome(resp) = "found" /\ resp.has_remaining
    THEN [keys EXCEPT ![index] =
             [f \in DOMAIN keys[index] \cup {"credits"} |->
                 IF f = "credits" THEN resp.remaining ELSE keys[index][f]]]
    ELSE keys

\* h_requests counts up to MaxRequests and stays there
CountRequest(n) == IF n < MaxRequests THEN n + 1 ELSE n

InitHunter ==
    /\ SyncIdle
    /\ ScraperIdle
    /\ PipelineIdle
    /\ api_keys \in SeqsUpTo(KeyPool, MaxKeys)
    /\ h_pc = "idle"
    /\ key_index = 0
    /\ h_result = "none"
    /\ h_requests = 0
    /\ calls = 0

\* run_enrichment calls find_email for the next profile (line 495)
FindEmailCalled ==
    /\ h_pc \in {"idle", "returned"}
    /\ calls < MaxCalls
    /\ calls' = calls + 1
    /\ h_requests' = 0

\* lines 212-232: the arguments are turned down before any request
FindEmailRejected ==
    /\ FindEmailCalled
    /\ \E input \in FinderInputs \ {"valid"} :
          /\ h_pc' = "returned"
          /\ h_result' = "None"
    /\ UNCHANGED <<outsideHunter, api_keys, key_index>>

\* lines 235-237: no active key
FindEmailNoKey ==
    /\ FindEmailCalled
    /\ _get_active_key(api_keys) = 0
    /\ h_pc' = "returned"
    /\ h_result' = "None"
    /\ UNCHANGED <<outsideHunter, api_keys, key_index>>

\* lines 235-259: a key is chosen and the request is sent
FindEmailRequest ==
    /\ FindEmailCalled
    /\ _get_active_key(api_keys) # 0
    /\ key_index' = _get_active_key(api_keys)
    /\ h_pc' = "request"
    /\ UNCHANGED <<outsideHunter, api_keys, h_result>>

\* the answer to the request (lines 261-333)
FinderAnswer(resp) ==
    /\ h_pc = "request"
    /\ h_requests' = CountRequest(h_requests)
    /\ api_keys' = CreditsAfter(api_keys, key_index, resp)
    /\ IF FinderOutcome(resp) = "rate_limited"
       THEN h_pc' = "sleeping" /\ UNCHANGED h_result
       ELSE /\ h_pc' = "returned"
            /\ h_result' = CASE FinderOutcome(resp) = "found" -> "found"
                             [] FinderOutcome(resp) = "not_found" -> "not_found"
                             [] OTHER -> "None"
    /\ UNCHANGED <<outsideHunter, key_index, calls>>

\* lines 261-263: status 429, time.sleep(60)
FinderRateLimited ==
    \E resp \in FinderResponses :
        FinderOutcome(resp) = "rate_limited" /\ FinderAnswer(resp)

\* lines 266-277: status 400 or any other status than 200 and 201
FinderRejected ==
    \E resp \in FinderResponses :
        FinderOutcome(resp) = "rejected" /\ FinderAnswer(resp)

\* lines 279-304: no data, no email, or a score below the threshold
FinderNotFound ==
    \E resp \in FinderResponses :
        FinderOutcome(resp) = "not_found" /\ FinderAnswer(resp)

\* lines 306-323
FinderFound ==
    \E resp \in FinderResponses :
        FinderOutcome(resp) = "found" /\ FinderAnswer(resp)

\* lines 325-333: the request or resp.json() raised
FinderFailed ==
    \E resp \in FinderResponses :
        FinderOutcome(resp) = "failed" /\ FinderAnswer(resp)

\* line 264: after the sleep find_email calls itself with the same
\* arguments, which pass the checks again, chooses the key again and sends
\* the request
FindEmailRetry ==
    /\ h_pc = "sleeping"
    /\ key_index' = _get_active_key(api_keys)
    /\ h_pc' = "request"
    /\ UNCHANGED <<outsideHunter, api_keys, h_result, h_requests, calls>>

NextHunter ==
    \/ FindEmailRejected
    \/ FindEmailNoKey
    \/ FindEmailRequest
    \/ FinderRateLimited
    \/ FinderRejected
    \/ FinderNotFound
    \/ FinderFound
    \/ FinderFailed
    \/ FindEmailRetry

SpecHunter == InitHunter /\ [][NextHunter]_vars

\* the client keeps running: a step that can be taken is taken
SpecHunterFair == SpecHunter /\ WF_vars(NextHunter)

(***************************************************************************)
(* scrape_bulk_async and ProxyRotator (scraper.py:228-391).  The           *)
(* coroutines run on one event loop: a coroutine runs alone from one await *)
(* to the next, and the coroutines of a gather interleave at their awaits. *)
(* A task is a record of its position (created, running, waiting, done)    *)
(* and of the page its loop is at; the profiles it collects are left out.  *)
(* A proxy is a number from 1; 0 stands for the None of get_next.          *)
(***************************************************************************)
\* what line 240 would store without its modulo
NextIndex_NoWrap(index, list) == index + 1

\* ProxyRotator.get_next, line 240: the index after a call
NextIndex(index, list) == (index + 1) % Len(list)

\* ProxyRotator.get_next, lines 237-241: the proxy handed out
GetNext(index, list) == IF list = << >> THEN 0 ELSE list[index + 1]

\* ProxyRotator.get_next, lines 237-241: current_index after the call
IndexAfterGetNext(index, list) ==
    IF list = << >> THEN index ELSE NextIndex(index, list)

\* line 375: the positions of tasks[i:i + concurrent_workers]
Batch(start, workers, n) ==
    {q \in 1..n : start < q /\ q <= start + workers}

\* the proxy lists of the configuration
ProxyLists == {[k \in 1..n |-> k] : n \in 0..MaxProxies}

\* how a request of scrape_query can end (lines 283-343)
ScrapeResponses == {"rate_limited", "error", "no_results", "results"}

InitScraper ==
    /\ SyncIdle
    /\ HunterIdle
    /\ PipelineIdle
    /\ proxies \in ProxyLists
    /\ concurrent_workers \in 0..MaxWorkers
    /\ n_queries \in 0..MaxQueries
    /\ pages_per_query \in 0..MaxPages
    /\ current_index = 0
    /\ tasks = << >>
    /\ batch_start = 0
    /\ s_pc = "idle"
    /\ handed = << >>

scraperInputs ==
    <<syncVars, hunterVars, pipelineVars, proxies, concurrent_workers, n_queries,
      pages_per_query>>

\* lines 361-374: the rotator and the coroutine objects are built, none of
\* them started, and the loop over the groups is entered
BulkStart ==
    /\ s_pc = "idle"
    /\ concurrent_workers > 0
    /\ tasks' = [q \in 1..n_queries |-> [pc |-> "created", page |-> 0]]
    /\ current_index' = 0
    /\ batch_start' = 0
    /\ s_pc' = "loop"
    /\ UNCHANGED <<scraperInputs, handed>>

\* line 374 with concurrent_workers = 0: range() raises ValueError
BulkRaises ==
    /\ s_pc = "idle"
    /\ concurrent_workers = 0
    /\ tasks' = [q \in 1..n_queries |-> [pc |-> "created", page |-> 0]]
    /\ s_pc' = "raised"
    /\ UNCHANGED <<scraperInputs, current_index, batch_start, handed>>

\* lines 375-376: asyncio.gather starts the coroutines of the next group
GatherGroup ==
    /\ s_pc = "loop"
    /\ batch_start < n_queries
    /\ tasks' = [q \in 1..n_queries |->
                    IF q \in Batch(batch_start, concurrent_workers, n_queries)
                    THEN [tasks[q] EXCEPT !.pc = "running"]
                    ELSE tasks[q]]
    /\ s_pc' = "gathering"
    /\ UNCHANGED <<scraperInputs, current_index, batch_start, handed>>

\* lines 376-377 and 374: gather returns when every coroutine of the group
\* has returned; the loop moves to the next group
GroupDone ==
    /\ s_pc = "gathering"
    /\ \A q \in Batch(batch_start, concurrent_workers, n_queries) :
          tasks[q].pc = "done"
    /\ batch_start' = batch_start + concurrent_workers
    /\ s_pc' = "loop"
    /\ UNCHANGED <<scraperInputs, current_index, tasks, handed>>

\* lines 374, 379-391: no group is left
BulkReturns ==
    /\ s_pc = "loop"
    /\ batch_start >= n_queries
    /\ s_pc' = "returned"
    /\ UNCHANGED <<scraperInputs, current_index, tasks, batch_start, handed>>

\* lines 269-288: a coroutine at the head of its loop takes a proxy from the
\* rotator and awaits the request of the page
QueryRequest(q) ==
    /\ tasks[q].pc = "running"
    /\ tasks[q].page < pages_per_query
    /\ handed' = Append(handed, GetNext(current_index, proxies))
    /\ current_index' = IndexAfterGetNext(current_index, proxies)
    /\ tasks' = [tasks EXCEPT ![q].pc = "waiting"]
    /\ UNCHANGED <<scraperInputs, batch_start, s_pc>>

\* lines 269, 345: the pages are used up, the coroutine returns
QueryReturns(q) ==
    /\ tasks[q].pc = "running"
    /\ tasks[q].page = pages_per_query
    /\ tasks' = [tasks EXCEPT ![q].pc = "done"]
    /\ UNCHANGED <<scraperInputs, current_index, batch_start, s_pc, handed>>

\* lines 288-343: the request of coroutine q ends
QueryAnswer(q, resp) ==
    /\ tasks[q].pc = "waiting"
    /\ tasks' = [tasks EXCEPT ![q] =
                    IF resp = "no_results"
                    THEN [pc |-> "done", page |-> tasks[q].page]
                    ELSE [pc |-> "running", page |-> tasks[q].page + 1]]
    /\ UNCHANGED <<scraperInputs, current_index, batch_start, s_pc, handed>>

\* lines 290-293: status 429, sleep 60, continue with the next page
QueryRateLimited == \E q \in DOMAIN tasks : QueryAnswer(q, "rate_limited")

\* lines 295-296, 341-343: the request, raise_for_status or resp.json()
\* raised; continue with the next page
QueryFailed == \E q \in DOMAIN tasks : QueryAnswer(q, "error")

\* lines 298-301, 345: no organic results; break and return
QueryNoResults == \E q \in DOMAIN tasks : QueryAnswer(q, "no_results")

\* lines 303-339: the results are read, sleep(delay), next page
QueryPage == \E q \in DOMAIN tasks : QueryAnswer(q, "results")

NextScraper ==
    \/ BulkStart
    \/ BulkRaises
    \/ GatherGroup
    \/ GroupDone
    \/ BulkReturns
    \/ \E q \in DOMAIN tasks : QueryRequest(q)
    \/ \E q \in DOMAIN tasks : QueryReturns(q)
    \/ QueryRateLimited
    \/ QueryFailed
    \/ QueryNoResults
    \/ QueryPage

SpecScraper == InitScraper /\ [][NextScraper]_vars

(***************************************************************************)
(* run_full_pipeline (main.py:52-174).  A stage is one of run_scraper,     *)
(* run_enrichment and the sheet sync; `stages` records each stage function *)
(* that was called and how the call ended.                                 *)
(***************************************************************************)
\* the parameters SheetSync.__init__ accepts by keyword, and the one without
\* a default (sheet_sync.py:57)
SheetSyncParameters == {"webhook_post", "webhook_get"}
SheetSyncRequired == {"webhook_post"}

\* the keywords of the call at main.py:138
PipelineKeywords == {"webhook_url"}

\* a Python call by keywords: TypeError for an unexpected keyword or a
\* missing required parameter
CallByKeywords(keywords, parameters, required) ==
    IF keywords \subseteq parameters /\ required \subseteq keywords
    THEN "ok"
    ELSE "TypeError"

\* `not webhook_url` (main.py:132)
IsFalsy(url) == url \in {"absent", "empty"}

Stage(name, outcome) == [stage |-> name, outcome |-> outcome]

InitPipeline ==
    /\ SyncIdle
    /\ HunterIdle
    /\ ScraperIdle
    /\ config_present \in BOOLEAN
    /\ webhook_url \in {"absent", "empty", "set"}
    /\ p_pc = "idle"
    /\ scraped_count = 0
    /\ enriched_count = 0
    /\ stages = << >>
    /\ sync_calls = 0
    /\ p_result = "none"

pipelineInputs ==
    <<syncVars, hunterVars, scraperVars, config_present, webhook_url>>

\* return False
ReturnsFalse == p_pc' = "returned" /\ p_result' = "False"

\* lines 57-81: the configuration is read
LoadConfig ==
    /\ p_pc = "idle"
    /\ config_present
    /\ p_pc' = "scraping"
    /\ UNCHANGED <<pipelineInputs, scraped_count, enriched_count, stages,
                   sync_calls, p_result>>

\* line 59: open() raises outside every try
LoadConfigRaises ==
    /\ p_pc = "idle"
    /\ ~config_present
    /\ p_pc' = "raised"
    /\ UNCHANGED <<pipelineInputs, scraped_count, enriched_count, stages,
                   sync_calls, p_result>>

\* lines 84-88: run_scraper returns an empty frame
ScrapingEmpty ==
    /\ p_pc = "scraping"
    /\ stages' = Append(stages, Stage("scraping", "empty"))
    /\ ReturnsFalse
    /\ UNCHANGED <<pipelineInputs, scraped_count, enriched_count, sync_calls>>

\* lines 84, 93-95: run_scraper raises
ScrapingRaises ==
    /\ p_pc = "scraping"
    /\ stages' = Append(stages, Stage("scraping", "raised"))
    /\ ReturnsFalse
    /\ UNCHANGED <<pipelineInputs, scraped_count, enriched_count, sync_calls>>

\* lines 84-91: run_scraper returns profiles
ScrapingDone ==
    /\ p_pc = "scraping"
    /\ \E n \in 1..MaxProfiles : scraped_count' = n
    /\ stages' = Append(stages, Stage("scraping", "rows"))
    /\ p_pc' = "enrichment"
    /\ UNCHANGED <<pipelineInputs, enriched_count, sync_calls, p_result>>

\* lines 106, 117-119: run_enrichment raises
EnrichmentRaises ==
    /\ p_pc = "enrichment"
    /\ stages' = Append(stages, Stage("enrichment", "raised"))
    /\ ReturnsFalse
    /\ UNCHANGED <<pipelineInputs, scraped_count, enriched_count, sync_calls>>

\* lines 106-115: run_enrichment returns, with or without profiles
EnrichmentDone ==
    /\ p_pc = "enrichment"
    /\ \E n \in 0..MaxProfiles : enriched_count' = n
    /\ stages' = Append(stages, Stage("enrichment", "returned"))
    /\ p_pc' = "sheet_sync"
    /\ UNCHANGED <<pipelineInputs, scraped_count, sync_calls, p_result>>

\* lines 130-134: no webhook URL in the configuration
NoWebhookUrl ==
    /\ p_pc = "sheet_sync"
    /\ IsFalsy(webhook_url)
    /\ ReturnsFalse
    /\ UNCHANGED <<pipelineInputs, scraped_count, enriched_count, stages,
                   sync_calls>>

\* lines 136-174: SheetSync is built and, when that succeeds, sync() is
\* called once; the pipeline returns True when sync returns and False when
\* the constructor or sync raises
SheetSyncStage ==
    /\ p_pc = "sheet_sync"
    /\ ~IsFalsy(webhook_url)
    /\ p_pc' = "returned"
    /\ IF CallByKeywords(PipelineKeywords, SheetSyncParameters,
                         SheetSyncRequired) = "TypeError"
       THEN /\ stages' = Append(stages, Stage("sheet_sync", "TypeError"))
            /\ p_result' = "False"
            /\ UNCHANGED sync_calls
       ELSE /\ sync_calls' = sync_calls + 1
            /\ \/ /\ stages' = Append(stages, Stage("sheet_sync", "returned"))
                  /\ p_result' = "True"
               \/ /\ stages' = Append(stages, Stage("sheet_sync", "raised"))
                  /\ p_result' = "False"
    /\ UNCHANGED <<pipelineInputs, scraped_count, enriched_count>>

NextPipeline ==
    \/ LoadConfig
    \/ LoadConfigRaises
    \/ ScrapingEmpty
    \/ ScrapingRaises
    \/ ScrapingDone
    \/ EnrichmentRaises
    \/ EnrichmentDone
    \/ NoWebhookUrl
    \/ SheetSyncStage

SpecPipeline == InitPipeline /\ [][NextPipeline]_vars

(***************************************************************************)
(* Properties of the reconciliation                                        *)
(***************************************************************************)
\* the natural key of a row: lowercase(trim(EMAIL))
NaturalKey(row) == Lower(Strip(row["EMAIL"]))

\* _compute_changes has returned in this run
Reconciled == fetched # "none" /\ pc \in {"loop", "post", "returned"}

\* the rows _compute_changes was given
LocalRows == df_local.rows
RemoteRows == df_sheet.rows

\* the remote rows holding a key, and the one a local row is merged with
RemoteWithKey(key) == {j \in 1..Len(RemoteRows) : NaturalKey(RemoteRows[j]) = key}

MatchedRemote(key) ==
    RemoteRows[CHOOSE j \in RemoteWithKey(key) : \A m \in RemoteWithKey(key) : m <= j]

\* local row k has a non-empty key that some remote row holds
IsMatch(k) ==
    /\ NaturalKey(LocalRows[k]) # EmptyStr
    /\ RemoteWithKey(NaturalKey(LocalRows[k])) # {}

\* the emitted row k has exactly the nine columns, with the local values
Verbatim(k) ==
    /\ DOMAIN changes[k] = SheetColumnSet
    /\ \A col \in SheetColumnSet : changes[k][col] = LocalRows[k][col]

BackendColumns == {"NAME", "EMAIL", "ROLE", "COMPANY", "SOURCE", "DATE", "NOTES"}

\* C1: with a non-empty remote collection, every local row whose non-empty
\* natural key is the key of a remote row is emitted with the STATUS and
\* TEMPLATE USED of the matched remote row, not with the local row's.
C1_OwnershipIsolation ==
    (Reconciled /\ ~IsEmpty(df_sheet)) =>
        \A k \in 1..Len(LocalRows) :
            IsMatch(k) =>
                /\ k \in DOMAIN changes
                /\ changes[k]["STATUS"] =
                       MatchedRemote(NaturalKey(LocalRows[k]))["STATUS"]
                /\ changes[k]["TEMPLATE USED"] =
                       MatchedRemote(NaturalKey(LocalRows[k]))["TEMPLATE USED"]

\* a match where the remote and the local workflow values differ, and the
\* emitted row has the remote ones
C1_Witness ==
    /\ Reconciled
    /\ \E k \in 1..Len(LocalRows) :
          /\ IsMatch(k)
          /\ k \in DOMAIN changes
          /\ MatchedRemote(NaturalKey(LocalRows[k]))["STATUS"] # LocalRows[k]["STATUS"]
          /\ MatchedRemote(NaturalKey(LocalRows[k]))["TEMPLATE USED"]
                 # LocalRows[k]["TEMPLATE USED"]
          /\ changes[k]["STATUS"] = MatchedRemote(NaturalKey(LocalRows[k]))["STATUS"]
          /\ changes[k]["STATUS"] # LocalRows[k]["STATUS"]

\* C3: for every local row matched to a remote row, each of NAME, EMAIL,
\* ROLE, COMPANY, SOURCE, DATE, NOTES of the emitted row is the local row's
\* value; each of the nine columns is in exactly one ownership class, so no
\* column is decided by the fallback branch.
C3_BackendFromLocal ==
    /\ \A col \in SheetColumnSet :
          /\ (col \in BACKEND_OWNED) # (col \in WORKFLOW_OWNED)
          /\ MergeBranch(col) # "fallback"
          /\ (col \in BackendColumns) = (MergeBranch(col) = "backend")
    /\ (Reconciled /\ ~IsEmpty(df_sheet)) =>
          \A k \in 1..Len(LocalRows) :
              IsMatch(k) =>
                  /\ k \in DOMAIN changes
                  /\ \A col \in BackendColumns :
                         changes[k][col] = LocalRows[k][col]

\* a match where the remote row differs from the local row in every
\* backend-owned column it could differ in, and the local values are emitted
C3_Witness ==
    /\ Reconciled
    /\ \E k \in 1..Len(LocalRows) :
          /\ IsMatch(k)
          /\ k \in DOMAIN changes
          /\ \A col \in BackendColumns :
                /\ MatchedRemote(NaturalKey(LocalRows[k]))[col] # LocalRows[k][col]
                /\ changes[k][col] = LocalRows[k][col]

\* C4: a local row whose natural key is the key of no remote row is emitted
\* with all nine fields equal to the local row's, whatever the remote holds.
C4_InsertOnMiss ==
    Reconciled =>
        /\ \A k \in 1..Len(LocalRows) :
              RemoteWithKey(NaturalKey(LocalRows[k])) = {} =>
                  k \in DOMAIN changes /\ Verbatim(k)

\* a non-empty remote collection, none of whose keys is the local row's
\* non-empty key: the row is emitted verbatim
C4_Witness ==
    /\ Reconciled
    /\ ~IsEmpty(df_sheet)
    /\ \E k \in 1..Len(LocalRows) :
          /\ NaturalKey(LocalRows[k]) # EmptyStr
          /\ RemoteWithKey(NaturalKey(LocalRows[k])) = {}
          /\ \E j \in 1..Len(RemoteRows) : NaturalKey(RemoteRows[j]) # EmptyStr
          /\ k \in DOMAIN changes
          /\ Verbatim(k)

\* C5: a local row whose EMAIL is empty after trimming is emitted verbatim,
\* never merged, also when remote rows have an empty EMAIL.
C5_KeylessAlwaysInsert ==
    Reconciled =>
        \A k \in 1..Len(LocalRows) :
            Strip(LocalRows[k]["EMAIL"]) = EmptyStr =>
                k \in DOMAIN changes /\ Verbatim(k)

\* a keyless local row and a keyless remote row with other workflow values:
\* the local row is emitted verbatim
C5_Witness ==
    /\ Reconciled
    /\ \E k \in 1..Len(LocalRows) :
          /\ Strip(LocalRows[k]["EMAIL"]) = EmptyStr
          /\ \E j \in 1..Len(RemoteRows) :
                /\ Strip(RemoteRows[j]["EMAIL"]) = EmptyStr
                /\ RemoteRows[j]["STATUS"] # LocalRows[k]["STATUS"]
          /\ k \in DOMAIN changes
          /\ Verbatim(k)

\* C6: the change-set has one row per local row, and its k-th row is derived
\* from the k-th local row (local order, nothing dropped or duplicated).
C6_OneRowPerLocalInOrder ==
    Reconciled =>
        /\ Len(changes) = Len(csv.rows)
        /\ Len(changes) = Len(LocalRows)
        /\ \A k \in 1..Len(LocalRows) :
              \A col \in BackendColumns : changes[k][col] = LocalRows[k][col]

\* two local rows that differ, the first with the greater key, against a
\* non-empty remote: emitted in local order
C6_Witness ==
    /\ Reconciled
    /\ ~IsEmpty(df_sheet)
    /\ Len(LocalRows) = 2
    /\ Len(changes) = 2
    /\ NaturalKey(LocalRows[1]) = <<"c">>
    /\ NaturalKey(LocalRows[2]) = EmptyStr
    /\ changes[1]["EMAIL"] = <<"c">>
    /\ changes[2]["EMAIL"] = EmptyStr

\* the change-set of a second reconciliation of the same CSV against
\* remote' = the first change-set
SecondChanges ==
    _compute_changes(_load_local_rows(csv, NowIso), FrameOf(changes)).changes

\* C7: reconcile is idempotent: with remote' = reconcile(local, remote),
\* reconcile(local, remote') emits for every local row with a non-empty key
\* the row of remote' for that local row, identical in all nine fields.
C7_Idempotent ==
    Reconciled =>
        /\ Len(SecondChanges) = Len(changes)
        /\ \A k \in 1..Len(changes) :
              NaturalKey(LocalRows[k]) # EmptyStr =>
                  /\ NaturalKey(changes[k]) = NaturalKey(LocalRows[k])
                  /\ SecondChanges[k] = changes[k]

\* two local rows with the same key and different values, first merged with
\* a remote row: the second reconciliation is an update of both and emits
\* the same rows
C7_Witness ==
    /\ Reconciled
    /\ ~IsEmpty(df_sheet)
    /\ Len(changes) = 2
    /\ IsMatch(1)
    /\ NaturalKey(LocalRows[1]) = NaturalKey(LocalRows[2])
    /\ LocalRows[1]["NAME"] # LocalRows[2]["NAME"]
    /\ changes[1]["STATUS"] # Pending
    /\ SecondChanges = changes

(***************************************************************************)
(* Properties of whole sync runs                                           *)
(***************************************************************************)
\* the change-set has just been computed and nothing of it is pushed yet:
\* the remote sheet is as the fetch of this run found it, or failed to
BeforeFirstPush == fetched # "none" /\ pc = "loop" /\ i = 0

\* C2: in every run, whatever the outcome of the fetch, every row pushed for
\* a non-empty key that the remote sheet holds carries the STATUS and
\* TEMPLATE USED of a remote row of that key; the defaults go only to keys
\* the remote sheet does not hold.
C2_WorkflowFieldsPreserved ==
    BeforeFirstPush =>
        \A k \in 1..Len(changes) :
            (NaturalKey(changes[k]) # EmptyStr /\ HasKey(sheet, NaturalKey(changes[k]))) =>
                \E j \in 1..Len(sheet) :
                    /\ NaturalKey(sheet[j]) = NaturalKey(changes[k])
                    /\ changes[k]["STATUS"] = sheet[j]["STATUS"]
                    /\ changes[k]["TEMPLATE USED"] = sheet[j]["TEMPLATE USED"]

RECURSIVE SumDelivered(_)
SumDelivered(log) ==
    IF log = << >>
    THEN 0
    ELSE (IF Head(log).delivered THEN Head(log).size ELSE 0) + SumDelivered(Tail(log))

RECURSIVE SumSizes(_)
SumSizes(log) ==
    IF log = << >> THEN 0 ELSE Head(log).size + SumSizes(Tail(log))

RECURSIVE SumTries(_)
SumTries(log) ==
    IF log = << >> THEN 0 ELSE Len(Head(log).tries) + SumTries(Tail(log))

\* POST calls issued so far in this run
PostCalls == SumTries(batch_log) + (IF pc = "post" THEN Len(tries) ELSE 0)

Ceil(n, b) == (n + b - 1) \div b

\* C8: sync returns the sum of the sizes of the delivered batches: n when
\* every batch is delivered, n less the dropped batches' sizes otherwise; and
\* always 0 <= sent <= rows dispatched so far.
C8_DeliveredCount ==
    /\ sent >= 0
    /\ sent <= SumSizes(batch_log)
    /\ SumSizes(batch_log) <= Len(changes)
    /\ sent = SumDelivered(batch_log)
    /\ pc = "returned" =>
          /\ result = SumDelivered(batch_log)
          /\ SumSizes(batch_log) = Len(changes)
          /\ (\A m \in 1..Len(batch_log) : batch_log[m].delivered) =>
                 result = Len(changes)

\* 120 rows, batch size 50, the second batch dropped: 70 is returned
C8_Witness ==
    /\ pc = "returned"
    /\ Len(changes) = 120
    /\ Len(batch_log) = 3
    /\ batch_log[1].delivered
    /\ ~batch_log[2].delivered
    /\ batch_log[3].delivered
    /\ result = 70

\* C9: a run over n rows processes exactly ceil(n / BATCH_SIZE) batches, in
\* order, with exactly that many POSTs when every attempt succeeds; a
\* dropped batch does not stop the run.
C9_BatchCount ==
    /\ \A m \in 1..Len(batch_log) :
          /\ batch_log[m].start = (m - 1) * BATCH_SIZE
          /\ batch_log[m].size >= 1
    /\ Len(batch_log) <= Ceil(Len(changes), BATCH_SIZE)
    /\ pc = "returned" =>
          /\ Len(batch_log) = Ceil(Len(changes), BATCH_SIZE)
          /\ (\A m \in 1..Len(batch_log) : batch_log[m].tries = <<TRUE>>) =>
                 PostCalls = Ceil(Len(changes), BATCH_SIZE)

\* three batches, the first one dropped, the later ones still attempted
C9_Witness ==
    /\ pc = "returned"
    /\ Len(batch_log) = 3
    /\ Ceil(Len(changes), BATCH_SIZE) = 3
    /\ ~batch_log[1].delivered
    /\ batch_log[2].delivered
    /\ Len(batch_log[3].tries) >= 1

\* the attempts of a finished batch: between 1 and RETRIES, none after a
\* success, failed only after RETRIES unsuccessful ones
AttemptsWellFormed(entry) ==
    /\ Len(entry.tries) >= 1
    /\ Len(entry.tries) <= RETRIES
    /\ \A n \in 1..(Len(entry.tries) - 1) : ~entry.tries[n]
    /\ entry.delivered = entry.tries[Len(entry.tries)]
    /\ ~entry.delivered => Len(entry.tries) = RETRIES

\* C10: every batch gets at least one and at most RETRIES POST attempts, none
\* after the first successful one, and is reported failed only after exactly
\* RETRIES unsuccessful attempts.
C10_BoundedRetries ==
    /\ \A m \in 1..Len(batch_log) : AttemptsWellFormed(batch_log[m])
    /\ pc = "post" =>
          /\ Len(tries) < RETRIES
          /\ attempt = Len(tries) + 1
          /\ \A n \in 1..Len(tries) : ~tries[n]

\* one batch delivered at its second attempt, another dropped after three
C10_Witness ==
    /\ Len(batch_log) >= 2
    /\ batch_log[1].tries = <<FALSE, TRUE>>
    /\ batch_log[1].delivered
    /\ batch_log[2].tries = <<FALSE, FALSE, FALSE>>
    /\ ~batch_log[2].delivered

(***************************************************************************)
(* Properties of the dispatcher's error handling                           *)
(***************************************************************************)
\* the step finishes the current batch as delivered
DeliversBatch ==
    /\ Len(batch_log') = Len(batch_log) + 1
    /\ batch_log'[Len(batch_log')].delivered
    /\ sent' = sent + Len(Slice(changes, i, BATCH_SIZE))

\* the step finishes the current batch as dropped
DropsBatch ==
    /\ Len(batch_log') = Len(batch_log) + 1
    /\ ~batch_log'[Len(batch_log')].delivered
    /\ sent' = sent
    /\ sheet' = sheet

\* the step leaves the current batch to a further attempt
RetriesBatch ==
    /\ pc' = "post"
    /\ attempt' = attempt + 1
    /\ UNCHANGED <<i, sent, sheet, batch_log>>

\* C11: a POST attempt succeeds exactly when the response has status 200 and
\* its body is absent, is not JSON, or is JSON without the error status; a
\* status 200 whose JSON body has status "error" is an unsuccessful attempt,
\* retried while attempts remain (as a non-200 or a raised request is) and
\* dropping the batch at attempt RETRIES.
C11_LogicalErrorIsFailure ==
    [][/\ \A resp \in Responses \cup {Exception} :
             PostAttempt(resp) =>
                (DeliversBatch <=>
                    /\ resp.kind = "response"
                    /\ resp.status = 200
                    /\ resp.body \in {"absent", "not_json", "json_ok"})
       /\ PostLogicalError =>
             IF attempt < RETRIES THEN RetriesBatch ELSE DropsBatch
       /\ (PostLogicalError \/ PostNon200 \/ PostException) =>
             (RetriesBatch <=> attempt < RETRIES)]_vars

\* a batch has just been dropped at its third attempt, which was answered
\* with status 200 and {"status": "error"}
C11_Witness ==
    /\ pc = "loop"
    /\ last_post = "logical_error"
    /\ batch_log # << >>
    /\ batch_log[Len(batch_log)].tries = <<FALSE, FALSE, FALSE>>
    /\ ~batch_log[Len(batch_log)].delivered
    /\ sent = 0

(***************************************************************************)
(* Properties of the fetch and of the early returns                        *)
(***************************************************************************)
\* _fetch_existing ended without the remote rows
FetchFailed == fetched \in {"no_url", "non_200", "bad_json", "exception"}

\* C12: when no GET URL is configured, the GET answers another status than
\* 200, its body is not JSON, or the request raises, _fetch_existing hands
\* sync an empty frame and nothing is raised; the change-set of that run is
\* the normalized local rows, one per row, each with the local values.
C12_FetchFailureMeansAllInserts ==
    FetchFailed =>
        /\ pc # "raised"
        /\ IsEmpty(df_sheet)
        /\ fetched = "no_url" => gets = 0
        /\ Reconciled =>
              /\ changes = _load_local_rows(csv, NowIso).rows
              /\ Len(changes) = Len(LocalRows)
              /\ \A k \in 1..Len(LocalRows) : Verbatim(k)

\* the GET body was not JSON while the sheet holds the local row's key with
\* STATUS "Replied": the row is emitted with the local values
C12_Witness ==
    /\ fetched = "bad_json"
    /\ Reconciled
    /\ changes # << >>
    /\ Verbatim(1)
    /\ \E j \in 1..Len(sheet) :
          /\ NaturalKey(sheet[j]) = NaturalKey(changes[1])
          /\ NaturalKey(sheet[j]) # EmptyStr
          /\ sheet[j]["STATUS"] = Replied
          /\ changes[1]["STATUS"] = Pending

\* C13: whatever the GET and the POSTs answer, sync raises nothing and
\* returns an integer count.
C13_SyncNeverRaises ==
    /\ pc # "raised"
    /\ pc = "returned" => result \in Nat

\* C14: when the local CSV is missing or has no rows, sync returns 0 and
\* has issued no GET and no POST: the remote sheet is as it was.
C14_NoLocalRowsNoRequests ==
    (pc # "idle" /\ (~csv.exists \/ csv.rows = << >>)) =>
        /\ pc = "returned"
        /\ result = 0
        /\ gets = 0
        /\ fetched = "none"
        /\ PostCalls = 0
        /\ batch_log = << >>
        /\ sheet = sheet_start

\* a CSV with a header and no rows, a GET URL and a sheet with rows: sync
\* has returned 0 without a request
C14_Witness ==
    /\ pc = "returned"
    /\ csv.exists
    /\ csv.columns # {}
    /\ csv.rows = << >>
    /\ webhook_get
    /\ sheet # << >>
    /\ result = 0
    /\ gets = 0
    /\ PostCalls = 0

(***************************************************************************)
(* Shape of the rows                                                       *)
(***************************************************************************)
\* C15: every row of the normalizer and every row of the change-set, on the
\* empty-remote path and on the merge path, has exactly the nine canonical
\* columns (email_norm is a column of the frames only), and every normalized
\* row has STATUS "Pending" and TEMPLATE USED "".
C15_NineCanonicalFields ==
    /\ \A row \in {_load_local_rows(csv, NowIso).rows[n] :
                      n \in 1..Len(_load_local_rows(csv, NowIso).rows)} :
          /\ DOMAIN row = SheetColumnSet
          /\ row["STATUS"] = Pending
          /\ row["TEMPLATE USED"] = EmptyStr
    /\ pc \in {"fetch", "compute"} =>
          \A n \in 1..Len(df_local.rows) :
              /\ DOMAIN df_local.rows[n] = SheetColumnSet
              /\ df_local.rows[n]["STATUS"] = Pending
              /\ df_local.rows[n]["TEMPLATE USED"] = EmptyStr
    /\ Reconciled =>
          \A k \in 1..Len(changes) :
              /\ DOMAIN changes[k] = SheetColumnSet
              /\ Cardinality(DOMAIN changes[k]) = Len(SHEET_COLUMNS)
              /\ "email_norm" \notin DOMAIN changes[k]

\* the merge path has added email_norm to both frames, and a merged row and
\* an inserted row were emitted with the nine columns alone
C15_Witness ==
    /\ Reconciled
    /\ "email_norm" \in df_local.columns
    /\ "email_norm" \in df_sheet.columns
    /\ Len(changes) = 2
    /\ IsMatch(1)
    /\ ~IsMatch(2)
    /\ DOMAIN changes[1] = SheetColumnSet
    /\ DOMAIN changes[2] = SheetColumnSet

(***************************************************************************)
(* Recovery by running sync again                                          *)
(***************************************************************************)
\* the rows of a sheet that hold a key
RowsWithKey(rows, key) == {j \in 1..Len(rows) : NaturalKey(rows[j]) = key}

\* an upsert-by-key store holds a non-empty key once
KeysOnce(rows) ==
    \A a, b \in 1..Len(rows) :
        (NaturalKey(rows[a]) # EmptyStr /\ NaturalKey(rows[a]) = NaturalKey(rows[b]))
            => a = b

\* the run that has returned pushed every batch, and an earlier run on the
\* same CSV dropped one
RerunAfterDrop ==
    /\ pc = "returned"
    /\ had_drop
    /\ batch_log # << >>
    /\ \A m \in 1..Len(batch_log) : batch_log[m].delivered
    /\ KeysOnce(sheet_start)

\* the remote row of a key holds the backend-owned values of the local row
\* (of the last one with that key) and the STATUS and TEMPLATE USED the key
\* had in the sheet before the run (those of the local row for a new key)
Repaired(local_rows, key) ==
    LET last == local_rows[CHOOSE j \in RowsWithKey(local_rows, key) :
                              \A m \in RowsWithKey(local_rows, key) : m <= j]
        row == sheet[CHOOSE j \in RowsWithKey(sheet, key) : TRUE]
        before == sheet_start[CHOOSE j \in RowsWithKey(sheet_start, key) : TRUE]
    IN  /\ Cardinality(RowsWithKey(sheet, key)) = 1
        /\ \A col \in BackendColumns : row[col] = last[col]
        /\ \A col \in {"STATUS", "TEMPLATE USED"} :
              row[col] = IF RowsWithKey(sheet_start, key) # {}
                         THEN before[col] ELSE last[col]

\* C16: after a run that dropped batches, a later run on the same local rows
\* whose deliveries all succeed leaves, for every local row with a non-empty
\* key, exactly one remote row, with the local backend-owned values and the
\* workflow-owned values the key had remotely.
C16_RerunRepairsDrops ==
    RerunAfterDrop =>
        LET local_rows == _load_local_rows(csv, NowIso).rows
        IN  \A k \in 1..Len(local_rows) :
                NaturalKey(local_rows[k]) # EmptyStr =>
                    Repaired(local_rows, NaturalKey(local_rows[k]))

\* the same, for later runs whose GET handed over the remote rows
C16_WhenFetched ==
    (RerunAfterDrop /\ fetched = "ok") =>
        LET local_rows == _load_local_rows(csv, NowIso).rows
        IN  \A k \in 1..Len(local_rows) :
                NaturalKey(local_rows[k]) # EmptyStr =>
                    Repaired(local_rows, NaturalKey(local_rows[k]))

(***************************************************************************)
(* Termination and batching                                                *)
(***************************************************************************)
\* the requests of a run: at most one GET, at most RETRIES POSTs per batch
RequestBounds ==
    /\ gets <= 1
    /\ PostCalls <= Ceil(Len(changes), BATCH_SIZE) * RETRIES
    /\ Len(batch_log) <= Ceil(Len(changes), BATCH_SIZE)

\* C17: sync terminates by returning, whatever the endpoints answer, after at
\* most one GET and at most ceil(n / BATCH_SIZE) * RETRIES POSTs: the request
\* bounds hold throughout, and a run that can take no further step has
\* returned.
C17_TerminatesByReturning ==
    /\ RequestBounds
    /\ pc = "returned" \/ ENABLED Next

\* the batches of the log, one after the other
RECURSIVE ConcatBatches(_)
ConcatBatches(log) ==
    IF log = << >> THEN << >>
    ELSE Slice(changes, Head(log).start, BATCH_SIZE) \o ConcatBatches(Tail(log))

\* C18: the batches are contiguous slices of the change-set in its order:
\* each starts where the one before ended, is non-empty and has at most
\* BATCH_SIZE rows, every batch but the last has exactly BATCH_SIZE rows, and
\* when sync returns the batches one after the other are the change-set.
C18_ContiguousBatches ==
    /\ \A m \in 1..Len(batch_log) :
          /\ batch_log[m].start = SumSizes(SubSeq(batch_log, 1, m - 1))
          /\ batch_log[m].size = Len(Slice(changes, batch_log[m].start, BATCH_SIZE))
          /\ batch_log[m].size >= 1
          /\ batch_log[m].size <= BATCH_SIZE
          /\ m < Len(batch_log) => batch_log[m].size = BATCH_SIZE
    /\ pc = "post" =>
          /\ i = SumSizes(batch_log)
          /\ Slice(changes, i, BATCH_SIZE) # << >>
          /\ \A m \in 1..Len(batch_log) : batch_log[m].size = BATCH_SIZE
    /\ (pc = "returned" /\ fetched # "none") =>
          ConcatBatches(batch_log) = changes

\* 120 rows were dispatched as batches of 50, 50 and 20 rows
C18_Witness ==
    /\ pc = "returned"
    /\ Len(changes) = 120
    /\ Len(batch_log) = 3
    /\ batch_log[1].size = 50 /\ batch_log[1].start = 0
    /\ batch_log[2].size = 50 /\ batch_log[2].start = 50
    /\ batch_log[3].size = 20 /\ batch_log[3].start = 100
    /\ ConcatBatches(batch_log) = changes

(***************************************************************************)
(* The wait between attempts                                               *)
(***************************************************************************)
\* C19: RETRY_DELAY is waited between two consecutive attempts of a batch,
\* whatever made the earlier one fail (raised request, non-200 status, or
\* status 200 with an error body), and nothing is waited after the last
\* attempt of a batch.
C19_BackoffBetweenAttempts ==
    /\ (pc = "post" /\ attempt > 1) => slept = RETRY_DELAY
    /\ (pc = "loop" /\ last_post # "none") => slept = 0

(***************************************************************************)
(* Duplicate keys in the remote collection                                 *)
(***************************************************************************)
\* the last position, in the order of the remote rows, that holds the key
LastDuplicate(key) ==
    CHOOSE j \in RemoteWithKey(key) : \A m \in RemoteWithKey(key) : m <= j

\* C20: when several remote rows hold the non-empty key of a local row, the
\* row is merged with the last of them in the order of the remote
\* collection: the emitted STATUS and TEMPLATE USED are that row's.
C20_LastDuplicateWins ==
    Reconciled =>
        \A k \in 1..Len(LocalRows) :
            (/\ NaturalKey(LocalRows[k]) # EmptyStr
             /\ Cardinality(RemoteWithKey(NaturalKey(LocalRows[k]))) >= 2) =>
                LET last == RemoteRows[LastDuplicate(NaturalKey(LocalRows[k]))]
                IN  /\ changes[k]["STATUS"] = last["STATUS"]
                    /\ changes[k]["TEMPLATE USED"] = last["TEMPLATE USED"]

\* two remote rows spell the local row's key differently, the first with
\* "Replied" and "T", the second with "Sent" and "": the emitted row has
\* "Sent" and ""
C20_Witness ==
    /\ Reconciled
    /\ Len(RemoteRows) = 2
    /\ Len(LocalRows) >= 1
    /\ NaturalKey(LocalRows[1]) # EmptyStr
    /\ RemoteWithKey(NaturalKey(LocalRows[1])) = {1, 2}
    /\ RemoteRows[1]["EMAIL"] # RemoteRows[2]["EMAIL"]
    /\ RemoteRows[1]["STATUS"] = Replied
    /\ RemoteRows[1]["TEMPLATE USED"] = S1("T")
    /\ RemoteRows[2]["STATUS"] = Sent
    /\ changes[1]["STATUS"] = Sent
    /\ changes[1]["TEMPLATE USED"] = EmptyStr

(***************************************************************************)
(* The empty-remote path against the general path                          *)
(***************************************************************************)
\* remote collections none of whose keys is the key of a local row: a row
\* with a key no CSV row has, and a row without email
NoMatchSheets ==
    {FrameOf(<<SheetRow(S1("o"), S2("z", "z"), Replied, S1("T"))>>),
     FrameOf(<<SheetRow(S1("o"), S1(" "), Sent, S1("T")),
               SheetRow(S1("p"), S2("z", "z"), Replied, EmptyStr)>>)}

\* C21: with an empty remote collection the change-set is the local rows
\* unchanged, and it is the change-set the per-row path returns for the same
\* local rows against a remote collection in which no key matches.
C21_EmptyRemoteIsGeneralPath ==
    (Reconciled /\ IsEmpty(df_sheet)) =>
        /\ changes = _load_local_rows(csv, NowIso).rows
        /\ changes = LocalRows
        /\ \A other \in NoMatchSheets :
              /\ ~_compute_changes(df_local, other).raised
              /\ _compute_changes(df_local, other).changes = changes

\* the GET handed over an empty sheet; a keyed and a keyless local row were
\* emitted unchanged, as the per-row path emits them
C21_Witness ==
    /\ Reconciled
    /\ fetched = "ok"
    /\ sheet = << >>
    /\ IsEmpty(df_sheet)
    /\ Len(changes) = 2
    /\ NaturalKey(changes[1]) # EmptyStr
    /\ NaturalKey(changes[2]) = EmptyStr
    /\ changes = LocalRows
    /\ \A other \in NoMatchSheets :
          _compute_changes(df_local, other).changes = changes

(***************************************************************************)
(* Frame of _compute_changes                                               *)
(***************************************************************************)
\* C22: _compute_changes leaves its two inputs as they were: after the call
\* the local frame is the normalizer's output and the remote frame is the
\* frame of the fetched rows, with the same columns and values.
C22_InputsUnchanged ==
    (fetched # "none" /\ pc \in {"loop", "post", "returned", "raised"}) =>
        /\ df_local = _load_local_rows(csv, NowIso)
        /\ df_local.columns = SheetColumnSet
        /\ fetched = "ok" => df_sheet = FrameOf(sheet_start)

(***************************************************************************)
(* The DATE of a normalized row                                            *)
(***************************************************************************)
\* the DATE the normalizer is to give a raw row
ExpectedDate(raw, now) ==
    IF "date" \in DOMAIN raw /\ Strip(raw["date"]) # EmptyStr
    THEN Strip(raw["date"])
    ELSE now

\* C23: DATE is the trimmed `date` field when the CSV has one that is not
\* empty after trimming, and the current timestamp in every other case, a
\* `date` column with an empty value included: DATE is never empty.
C23_DateNeverEmpty ==
    pc # "idle" =>
        LET loaded == _load_local_rows(csv, NowIso).rows
        IN  \A n \in 1..Len(loaded) :
                /\ loaded[n]["DATE"] = ExpectedDate(csv.rows[n], NowIso)
                /\ loaded[n]["DATE"] # EmptyStr

(***************************************************************************)
(* Properties of HunterClient                                              *)
(***************************************************************************)
\* the key of the current request is active and no active key has fewer
\* credits, the lowest position winning a tie
ChoseFewestCredits ==
    /\ key_index \in ActiveKeys(api_keys)
    /\ \A b \in ActiveKeys(api_keys) :
          \/ KeyCredits(api_keys[key_index]) < KeyCredits(api_keys[b])
          \/ /\ KeyCredits(api_keys[key_index]) = KeyCredits(api_keys[b])
             /\ key_index <= b

\* the key of the current request is active and no active key has more
\* credits, the lowest position winning a tie
ChoseMostCredits ==
    /\ key_index \in ActiveKeys(api_keys)
    /\ \A b \in ActiveKeys(api_keys) :
          \/ KeyCredits(api_keys[key_index]) > KeyCredits(api_keys[b])
          \/ /\ KeyCredits(api_keys[key_index]) = KeyCredits(api_keys[b])
             /\ key_index <= b

\* without an active key nothing is chosen and find_email returns None
\* before any request
NoneWithoutActiveKey ==
    ActiveKeys(api_keys) = {} =>
        /\ _get_active_key(api_keys) = 0
        /\ h_pc \in {"idle", "returned"}
        /\ h_pc = "returned" => (h_result = "None" /\ h_requests = 0)

\* a step that changes api_keys is the answer with a found email to the
\* request made with the chosen key, and changes the credits of that key
\* alone
CreditsChangeOnSuccess ==
    api_keys' # api_keys =>
        /\ h_pc = "request"
        /\ FinderFound
        /\ h_result' = "found"
        /\ Len(api_keys') = Len(api_keys)
        /\ \A n \in 1..Len(api_keys) :
              IF n = key_index
              THEN /\ IsActive(api_keys'[n])
                   /\ \A f \in DOMAIN api_keys[n] \ {"credits"} :
                         api_keys'[n][f] = api_keys[n][f]
              ELSE api_keys'[n] = api_keys[n]

\* C24 as stated: _get_active_key considers the active keys only, gives None
\* when there is none, and otherwise chooses the active key with the lowest
\* remaining credit, the lowest index winning a tie.
C24_LowestCreditFirst ==
    /\ NoneWithoutActiveKey
    /\ h_pc = "request" => ChoseFewestCredits

\* C24 amended: _get_active_key considers the active keys only, gives None
\* when there is none, and otherwise chooses the active key with the highest
\* remaining credit, the lowest index winning a tie; the credits of a key
\* change only with a successful answer to a request made with that key.
C24_MostCreditsFirst ==
    /\ [](NoneWithoutActiveKey /\ (h_pc = "request" => ChoseMostCredits))
    /\ [][CreditsChangeOnSuccess]_vars

\* two active keys, the second with more credits, and an exhausted key with
\* more still: the request is made with the second key
C24_Witness ==
    /\ h_pc = "request"
    /\ Len(api_keys) >= 2
    /\ IsActive(api_keys[1])
    /\ IsActive(api_keys[2])
    /\ KeyCredits(api_keys[1]) < KeyCredits(api_keys[2])
    /\ key_index = 2

InFlight == {q \in DOMAIN tasks : tasks[q].pc \in {"running", "waiting"}}

\* the group a task belongs to, counted from 0
GroupOf(q) == (q - 1) \div concurrent_workers

\* every task of an earlier group than q's has returned
EarlierGroupsDone(q) ==
    \A r \in DOMAIN tasks : GroupOf(r) < GroupOf(q) => tasks[r].pc = "done"

\* the k-th get_next call handed out the proxy at position k, counted round
\* the list
CyclicOrder ==
    \A k \in 1..Len(handed) :
        handed[k] = IF proxies = << >> THEN 0
                    ELSE proxies[((k - 1) % Len(proxies)) + 1]

\* C25: in scrape_bulk_async at most concurrent_workers scrape_query
\* coroutines are in flight at any time, a coroutine is in flight only when
\* every coroutine of the earlier groups has returned, and under every
\* interleaving current_index stays within 0..len(proxies)-1 (with no proxy
\* configured it stays 0 and get_next hands out None) and successive
\* get_next calls hand out the proxies in cyclic order.
C25_BoundedConcurrency ==
    /\ Cardinality(InFlight) <= concurrent_workers
    /\ \A q \in InFlight : EarlierGroupsDone(q)
    /\ IF proxies = << >>
       THEN current_index = 0
       ELSE current_index \in 0..(Len(proxies) - 1)
    /\ CyclicOrder

\* a second group runs with two requests pending at once, after the
\* rotation has gone round the list of two or more proxies
C25_Witness ==
    /\ batch_start > 0
    /\ Cardinality(InFlight) = concurrent_workers
    /\ Cardinality({q \in DOMAIN tasks : tasks[q].pc = "waiting"}) >= 2
    /\ Len(proxies) >= 2
    /\ Len(handed) > Len(proxies)

(***************************************************************************)
(* Order of the stages of run_full_pipeline                                *)
(***************************************************************************)
StageNames == [k \in DOMAIN stages |-> stages[k].stage]

\* scraping returned profiles, enrichment did not raise and a webhook URL
\* is configured
AllStagesCanRun ==
    /\ Len(stages) >= 2
    /\ stages[1] = Stage("scraping", "rows")
    /\ stages[2] = Stage("enrichment", "returned")
    /\ ~IsFalsy(webhook_url)

\* scraping returned nothing or a stage raised: that stage is the last one
StoppedAtFailure ==
    /\ stages # << >>
    /\ stages[Len(stages)].outcome \in {"empty", "raised", "TypeError"}
    /\ \A k \in 1..(Len(stages) - 1) :
          stages[k].outcome \in {"rows", "returned"}

\* C26: when scraping returns a non-empty result, enrichment does not raise
\* and a webhook URL is configured, run_full_pipeline runs scraping,
\* enrichment and sheet sync in this order, calls SheetSync.sync exactly
\* once and returns True; when scraping returns nothing or a stage raises it
\* returns False and no later stage has run.
C26_StagesInOrder ==
    p_pc = "returned" =>
        /\ AllStagesCanRun =>
              /\ StageNames = <<"scraping", "enrichment", "sheet_sync">>
              /\ sync_calls = 1
              /\ p_result = "True"
        /\ (\E k \in DOMAIN stages :
               stages[k].outcome \in {"empty", "raised", "TypeError"}) =>
              /\ StoppedAtFailure
              /\ p_result = "False"

====
